---- MODULE Spec2Model ----
(***************************************************************************)
(* A model of bee_code (src/src/lib.rs): the Bencode value type, the       *)
(* cursor-based recursive-descent Parser behind Bencode::parse, and        *)
(* Bencode::serialize.                                                     *)
(*                                                                         *)
(* The recursive descent is unfolded into a machine with an explicit call  *)
(* stack: one frame per active parse_element / parse_dict / parse_list /   *)
(* parse_int call, one action per straight-line piece of each function.    *)
(* The leaf routines (eof, next as At, consume_while, consume_expected,     *)
(* parse_len, parse_string) are operators over (input, pos).               *)
(*                                                                         *)
(* Bytes are their numeric u8 values.  An i64 is held as a sign and a      *)
(* canonical decimal magnitude (a sequence of digit bytes), because the    *)
(* range of i64 exceeds the integers of the model checker; range checks    *)
(* are made on the digits against the digits of i64::MAX and |i64::MIN|.   *)
(***************************************************************************)
EXTENDS Integers, Sequences, FiniteSets, TLC

VARIABLES
    input,    \* Parser.input: the byte buffer being decoded
    pos,      \* Parser.pos: the cursor, 0-based
    stack,    \* the active calls of the recursive descent, innermost last
    ret,      \* the Result most recently returned by a call, not yet used
    outcome,  \* "running", or how Bencode::parse ended: "Ok", "Err", "Panic"
    phase,    \* "parse": parse(source); "serialized"; "reparse": parse(out)
    first,    \* the value the first parse returned (kept for the round trip)
    out       \* value.serialize() of the first parse's value

vars == <<input, pos, stack, ret, outcome, phase, first, out>>

----------------------------------------------------------------------------
(* Bytes *)

Code ==
    ("d" :> 100) @@ ("l" :> 108) @@ ("i" :> 105) @@ ("e" :> 101) @@
    ("-" :> 45) @@ ("+" :> 43) @@ (":" :> 58) @@
    ("0" :> 48) @@ ("1" :> 49) @@ ("2" :> 50) @@ ("3" :> 51) @@ ("4" :> 52) @@
    ("5" :> 53) @@ ("6" :> 54) @@ ("7" :> 55) @@ ("8" :> 56) @@ ("9" :> 57) @@
    ("a" :> 97) @@ ("b" :> 98) @@ ("c" :> 99) @@ ("g" :> 103) @@ ("m" :> 109) @@
    ("n" :> 110) @@ ("o" :> 111) @@ ("p" :> 112) @@ ("r" :> 114) @@
    ("s" :> 115) @@ ("t" :> 116) @@ ("x" :> 120) @@ ("y" :> 121) @@
    ("z" :> 122) @@ ("FF" :> 255)

\* b'c'
Ch(c) == Code[c]

\* b"..." written as a tuple of one-character strings
B(s) == [k \in 1..Len(s) |-> Code[s[k]]]

IsDigit(c) == c >= Ch("0") /\ c <= Ch("9")

\* Vec<u8>'s Ord: lexicographic on the byte values, a proper prefix first
BytesLess(a, b) ==
    \E k \in 1..Len(b) :
        /\ k - 1 <= Len(a)
        /\ \A j \in 1..(k - 1) : a[j] = b[j]
        /\ (Len(a) = k - 1 \/ a[k] < b[k])

----------------------------------------------------------------------------
(* enum Bencode, enum BencodeError, Result *)

NoVal == [t |-> "None", neg |-> FALSE, n |-> <<>>, l |-> <<>>, m |-> <<>>]

\* Bencode::Integer(i64): sign and canonical decimal magnitude
Integer(neg, mag) ==
    [t |-> "Integer", neg |-> neg, n |-> mag, l |-> <<>>, m |-> <<>>]

\* Bencode::Bytes(Vec<u8>)
Bytes(b) == [t |-> "Bytes", neg |-> FALSE, n |-> b, l |-> <<>>, m |-> <<>>]

\* Bencode::List(Vec<Self>)
List(items) ==
    [t |-> "List", neg |-> FALSE, n |-> <<>>, l |-> items, m |-> <<>>]

\* Bencode::Dict(BTreeMap<Vec<u8>, Self>): the entries [k, v] in the map's
\* iteration order
Dict(entries) ==
    [t |-> "Dict", neg |-> FALSE, n |-> <<>>, l |-> <<>>, m |-> entries]

\* the u8 that consume_expected returns inside Ok
U8(c) == [t |-> "U8", neg |-> FALSE, n |-> <<c>>, l |-> <<>>, m |-> <<>>]

NoErr == [kind |-> "None", at |-> 0, msg |-> "", args |-> <<>>]

\* BencodeError::<kind>(format!(msg, at, args...))
Error(kind, at, msg, args) ==
    [kind |-> kind, at |-> at, msg |-> msg, args |-> args]

\* What a routine did: Ok(val) or Err(err) with the cursor left at p, or a
\* panic (unwrap on None, expect on Err, index out of bounds)
Ok(val, p) == [tag |-> "Ok", val |-> val, err |-> NoErr, pos |-> p]
Err(err, p) == [tag |-> "Err", val |-> NoVal, err |-> err, pos |-> p]
Panic(p) == [tag |-> "Panic", val |-> NoVal, err |-> NoErr, pos |-> p]

\* the Result a call hands to its caller
Returned(r) == [tag |-> r.tag, val |-> r.val, err |-> r.err]
NoRet == [tag |-> "None", val |-> NoVal, err |-> NoErr]

----------------------------------------------------------------------------
(* Decimal text: str::parse::<i64>, str::parse::<usize>, format!("{}") *)

RECURSIVE StripZeros(_)
StripZeros(ds) ==
    IF Len(ds) > 1 /\ ds[1] = Ch("0") THEN StripZeros(Tail(ds)) ELSE ds

\* a <= b for canonical decimal magnitudes
DigitsLeq(a, b) ==
    \/ Len(a) < Len(b)
    \/ Len(a) = Len(b) /\ (a = b \/ BytesLess(a, b))

\* i64::MAX = 9223372036854775807 and |i64::MIN| = 9223372036854775808
I64MaxDigits ==
    B(<<"9","2","2","3","3","7","2","0","3","6","8","5","4","7","7","5","8","0","7">>)
I64MinDigits ==
    B(<<"9","2","2","3","3","7","2","0","3","6","8","5","4","7","7","5","8","0","8">>)
\* usize::MAX = 18446744073709551615 (64-bit target)
UsizeMaxDigits ==
    B(<<"1","8","4","4","6","7","4","4","0","7","3","7","0","9","5","5","1","6","1","5">>)

I64Min == Integer(TRUE, I64MinDigits)

\* from_utf8(&v).is_ok().  The bytes of the model are ASCII and 0xFF; 0xFF
\* occurs in no UTF-8 sequence and every ASCII byte is one.
from_utf8_ok(v) == \A k \in 1..Len(v) : v[k] < 128

\* Utf8Error::valid_up_to(): the index of the first offending byte
valid_up_to(v) ==
    CHOOSE k \in 0..Len(v) :
        /\ k < Len(v) /\ v[k + 1] >= 128
        /\ \A j \in 1..k : v[j] < 128

\* value.parse::<i64>(): an optional '+' or '-', then one or more ASCII
\* digits, the value within i64.  ok = FALSE is Err(ParseIntError).
parse_i64(v) ==
    LET signed == Len(v) > 0 /\ v[1] \in {Ch("+"), Ch("-")}
        minus == signed /\ v[1] = Ch("-")
        ds == IF signed THEN Tail(v) ELSE v
        mag == StripZeros(ds)
        digits == Len(ds) > 0 /\ \A k \in 1..Len(ds) : IsDigit(ds[k])
        fits == DigitsLeq(mag, IF minus THEN I64MinDigits ELSE I64MaxDigits)
    IN  IF digits /\ fits
        THEN [ok |-> TRUE, val |-> Integer(minus /\ mag # B(<<"0">>), mag)]
        ELSE [ok |-> FALSE, val |-> NoVal]

RECURSIVE DecVal(_)
DecVal(ds) ==
    IF Len(ds) = 0 THEN 0
    ELSE 10 * DecVal(SubSeq(ds, 1, Len(ds) - 1)) + (ds[Len(ds)] - Ch("0"))

\* value.parse::<usize>(): an optional '+', then one or more ASCII digits,
\* the value within usize.  ok = FALSE is Err(ParseIntError); mag is the
\* value's canonical decimal text.
parse_usize(v) ==
    LET signed == Len(v) > 0 /\ v[1] = Ch("+")
        ds == IF signed THEN Tail(v) ELSE v
        mag == StripZeros(ds)
        digits == Len(ds) > 0 /\ \A k \in 1..Len(ds) : IsDigit(ds[k])
        fits == DigitsLeq(mag, UsizeMaxDigits)
    IN  [ok |-> digits /\ fits, mag |-> mag]

\* format!("{}", num) for num: i64
format_i64(val) == (IF val.neg THEN <<Ch("-")>> ELSE <<>>) \o val.n

\* format!("{}", len) for len: usize
RECURSIVE format_usize(_)
format_usize(len) ==
    IF len < 10 THEN <<Ch("0") + len>>
    ELSE format_usize(len \div 10) \o <<Ch("0") + (len % 10)>>

\* int * sign, as the set of results the build can give: "Panic" or a value.
\* sign = -1 and int = i64::MIN overflows: the multiplication panics where
\* overflow checks are compiled in (debug profile) and wraps to i64::MIN
\* where they are not (release profile).
mul_sign(val, sign) ==
    IF sign = 1 THEN {[panic |-> FALSE, val |-> val]}
    ELSE IF val = I64Min
    THEN {[panic |-> TRUE, val |-> NoVal], [panic |-> FALSE, val |-> I64Min]}
    ELSE IF val.n = B(<<"0">>) THEN {[panic |-> FALSE, val |-> val]}
    ELSE {[panic |-> FALSE, val |-> Integer(~val.neg, val.n)]}

----------------------------------------------------------------------------
(* impl Parser: the leaf routines, over the buffer inp and the cursor p *)

\* Parser::eof
eof(inp, p) == p >= Len(inp)

\* self.input[p]
At(inp, p) == inp[p + 1]

\* Parser::consume_while: the cursor after consuming while !eof &&
\* test(next).  Both closures of the source have the shape |c| c != b; the
\* parameter is that b.
consume_while(inp, p, b) ==
    IF eof(inp, p) THEN p
    ELSE CHOOSE q \in p..Len(inp) :
            /\ \A r \in p..(q - 1) : At(inp, r) # b
            /\ (eof(inp, q) \/ At(inp, q) = b)

\* Parser::consume_expected.  next() unwraps None at end of input; the
\* message of the Err arm indexes self.input[self.pos + 1].
consume_expected(inp, p, expected) ==
    IF eof(inp, p) THEN Panic(p)
    ELSE IF At(inp, p) = expected THEN Ok(U8(expected), p + 1)
    ELSE IF p + 1 >= Len(inp) THEN Panic(p)
    ELSE Err(Error("Unexpected", p, "Unexpected character",
                   <<expected, At(inp, p + 1)>>), p)

\* Parser::parse_len.  val carries the length as Bytes(decimal text).
parse_len(inp, p) ==
    IF eof(inp, p) THEN Panic(p)
    ELSE IF At(inp, p) = Ch("-")
    THEN Err(Error("NegativeLen", p, "Negative string len", <<>>), p)
    ELSE
        LET q == consume_while(inp, p, Ch(":"))
            v == SubSeq(inp, p + 1, q)
            len == parse_usize(v)
        IN  IF ~from_utf8_ok(v)
            THEN Err(Error("Utf8Error", q, "Non UTF8 encoded string length",
                           <<valid_up_to(v)>>), q)
            ELSE IF ~len.ok THEN Panic(q)
            ELSE Ok(Bytes(len.mag), q)

\* Parser::parse_string gone wrong: the payload ends at the first e
parse_string_to_e(inp, p) ==
    LET len == parse_len(inp, p)
        colon == consume_expected(inp, len.pos, Ch(":"))
    IN  IF len.tag # "Ok" THEN len
        ELSE IF colon.tag # "Ok" THEN colon
        ELSE IF Len(len.val.n) > Len(format_usize(Len(inp))) THEN Panic(colon.pos)
        ELSE LET n == DecVal(len.val.n)
                 q == consume_while(inp, colon.pos, Ch("e"))
                 end == IF q < colon.pos + n THEN q ELSE colon.pos + n
             IN  IF colon.pos + n > Len(inp) THEN Panic(Len(inp) + 1)
                 ELSE Ok(Bytes(SubSeq(inp, colon.pos + 1, end)), end)

\* Parser::parse_string.  The payload loop calls consume() len times, and
\* consume() unwraps None once the cursor is past the input: a length of
\* more digits than the input's own length has runs off the input.
parse_string(inp, p) ==
    LET len == parse_len(inp, p)
        colon == consume_expected(inp, len.pos, Ch(":"))
    IN  IF len.tag # "Ok" THEN len
        ELSE IF colon.tag # "Ok" THEN colon
        ELSE IF Len(len.val.n) > Len(format_usize(Len(inp))) THEN Panic(colon.pos)
        ELSE LET n == DecVal(len.val.n)
             IN  IF colon.pos + n > Len(inp) THEN Panic(Len(inp) + 1)
                 ELSE Ok(Bytes(SubSeq(inp, colon.pos + 1, colon.pos + n)),
                         colon.pos + n)

----------------------------------------------------------------------------
(* Bencode::serialize *)

\* Bencode::serialize_bytes
serialize_bytes(bytes) == format_usize(Len(bytes)) \o <<Ch(":")>> \o bytes

RECURSIVE serialize(_), serialize_list(_), serialize_dict(_)

\* the for loop of the List arm
serialize_list(list) ==
    IF Len(list) = 0 THEN <<>>
    ELSE serialize(Head(list)) \o serialize_list(Tail(list))

\* the for loop of the Dict arm: the map's entries in iteration order
serialize_dict(dict) ==
    IF Len(dict) = 0 THEN <<>>
    ELSE serialize_bytes(Head(dict).k) \o serialize(Head(dict).v)
         \o serialize_dict(Tail(dict))

serialize(self) ==
    CASE self.t = "Integer" -> <<Ch("i")>> \o format_i64(self) \o <<Ch("e")>>
      [] self.t = "List" -> <<Ch("l")>> \o serialize_list(self.l) \o <<Ch("e")>>
      [] self.t = "Dict" -> <<Ch("d")>> \o serialize_dict(self.m) \o <<Ch("e")>>
      [] self.t = "Bytes" -> serialize_bytes(self.n)

\* BTreeMap::insert gone wrong: a new key goes to the end
BTreeInsertUnsorted(dict, k, v) ==
    IF \E j \in 1..Len(dict) : dict[j].k = k
    THEN [j \in 1..Len(dict) |->
            IF dict[j].k = k THEN [k |-> k, v |-> v] ELSE dict[j]]
    ELSE Append(dict, [k |-> k, v |-> v])

\* BTreeMap::insert gone wrong: an equal key keeps its old value
BTreeInsertKeepFirst(dict, k, v) ==
    IF \E j \in 1..Len(dict) : dict[j].k = k
    THEN dict
    ELSE LET below == Cardinality({j \in 1..Len(dict) : BytesLess(dict[j].k, k)})
         IN  SubSeq(dict, 1, below) \o <<[k |-> k, v |-> v]>>
             \o SubSeq(dict, below + 1, Len(dict))

\* BTreeMap::insert: an equal key keeps its place and takes the new value;
\* a new key goes after the keys below it
BTreeInsert(dict, k, v) ==
    IF \E j \in 1..Len(dict) : dict[j].k = k
    THEN [j \in 1..Len(dict) |->
            IF dict[j].k = k THEN [k |-> k, v |-> v] ELSE dict[j]]
    ELSE LET below == Cardinality({j \in 1..Len(dict) : BytesLess(dict[j].k, k)})
         IN  SubSeq(dict, 1, below) \o <<[k |-> k, v |-> v]>>
             \o SubSeq(dict, below + 1, Len(dict))

----------------------------------------------------------------------------
(* The inputs handed to Bencode::parse *)

\* every byte string of at most MaxLen bytes over RawBytes
MaxLen == 4
RawBytes == {Ch(c) : c \in {"d", "l", "i", "e", "-", "+", "0", "1", ":"}}
RawInputs == UNION {[1..len -> RawBytes] : len \in 0..MaxLen}

RECURSIVE Concat(_)
Concat(seqs) == IF Len(seqs) = 0 THEN <<>> ELSE Head(seqs) \o Concat(Tail(seqs))

\* d <key><value> ... e with at most MaxPairs pairs, keys in any order and
\* repeated, and l <value> ... e with at most MaxItems items
MaxPairs == 3
MaxItems == 2
KeyToks ==
    { B(<<"1", ":", "a">>), B(<<"1", ":", "b">>), B(<<"2", ":", "a", "b">>) }
DictValToks ==
    { B(<<"i", "1", "e">>),
      B(<<"d", "1", ":", "b", "i", "0", "e", "1", ":", "a", "0", ":", "e">>) }
ListValToks ==
    { B(<<"i", "1", "e">>), B(<<"i", "-", "2", "e">>), B(<<"1", ":", "e">>),
      B(<<"l", "e">>), B(<<"d", "1", ":", "a", "l", "e", "e">>) }
PairToks == {k \o v : k \in KeyToks, v \in DictValToks}
DictInputs ==
    { <<Ch("d")>> \o Concat(ps) \o <<Ch("e")>> :
        ps \in UNION {[1..len -> PairToks] : len \in 0..MaxPairs} }
ListInputs ==
    { <<Ch("l")>> \o Concat(vs) \o <<Ch("e")>> :
        vs \in UNION {[1..len -> ListValToks] : len \in 0..MaxItems} }

\* the inputs of the repository's tests and documentation, and inputs at the
\* edges of i64, of the sign and digit rules, and of UTF-8
Examples ==
    { B(<<"i", "3", "6", "e">>),
      B(<<"6", ":", "s", "t", "r", "i", "n", "g">>),
      B(<<"-", "2", ":", "t", "e", "x", "t">>),
      B(<<"d", "-", "2", ":", "a", "b", "i", "1", "e", "e">>),
      B(<<"l", "-", "2", ":", "a", "b", "e">>),
      B(<<"i", "1", "3", "e">>),
      B(<<"i", "-", "1", "3", "e">>),
      B(<<"i", "0", "9", "3", "4", "e">>),
      B(<<"i", "-", "0", "9", "3", "4", "e">>),
      B(<<"l", "4", ":", "s", "p", "a", "m", "3", ":", "d", "o", "g", "e">>),
      B(<<"d", "4", ":", "s", "p", "a", "m", "3", ":", "d", "o", "g",
          "3", ":", "c", "a", "t", "i", "3", "6", "e", "e">>),
      B(<<"d", "1", ":", "a", "i", "1", "e", "1", ":", "b", "i", "2", "e",
          "1", ":", "a", "i", "3", "e", "e">>),
      B(<<"i", "1", "e", "x", "y", "z">>),
      B(<<"i", "+", "5", "e">>),
      B(<<"i", "-", "-", "5", "e">>),
      B(<<"i", "+", "0", "9", "e">>),
      B(<<"i", "-", "-", "0", "e">>),
      B(<<"i", "a", "e">>),
      B(<<"i", "FF", "e">>),
      B(<<"i", "1", "FF", "e", "e">>),
      B(<<"FF", "e">>),
      B(<<"1", "FF", ":", "a">>),
      B(<<"3", ":", "a", "b">>),
      B(<<"3", ":", "e", ":", "-">>),
      B(<<"2", ":", "FF", "3", "x">>),
      B(<<"d", "3", ":", "c", "a", "t">>),
      B(<<"d", "+", "1", ":", "a", "l", "e", "e">>),
      B(<<"1", "2", ":", "0", "1", "2", "3", "4", "5", "6", "7", "8", "9", "a", "b">>),
      B(<<"l", "l", "d", "1", ":", "a", "l", "i", "0", "e", "e", "e", "e", "e">>),
      B(<<"l", "l", "i", "1", "e", "l", "i", "0", "1", "e", "e", "e", "e">>),
      B(<<"d", "1", ":", "a", "d", "1", ":", "b", "l", "i", "-", "0", "e", "e", "e", "e">>),
      <<Ch("i")>> \o I64MaxDigits \o <<Ch("e")>>,
      <<Ch("i")>> \o I64MinDigits \o <<Ch("e")>>,
      <<Ch("i"), Ch("-")>> \o I64MaxDigits \o <<Ch("e")>>,
      <<Ch("i"), Ch("-")>> \o I64MinDigits \o <<Ch("e")>>,
      <<Ch("i"), Ch("-"), Ch("-")>> \o I64MinDigits \o <<Ch("e")>>,
      <<Ch("i"), Ch("-"), Ch("-")>> \o I64MaxDigits \o <<Ch("e")>>,
      UsizeMaxDigits \o <<Ch("0"), Ch(":"), Ch("a")>>,
      UsizeMaxDigits \o <<Ch(":"), Ch("a")>> }

Inputs == RawInputs \cup DictInputs \cup ListInputs \cup Examples

----------------------------------------------------------------------------
(* The call stack *)

\* One active call: the function, where it stands, and its locals (pos of
\* parse_int; k, dict of parse_dict; list of parse_list)
Frame(fn, pc) ==
    [fn |-> fn, pc |-> pc, start |-> 0, key |-> <<>>, l |-> <<>>, m |-> <<>>]

Top == stack[Len(stack)]
Callers == SubSeq(stack, 1, Len(stack) - 1)

Running(fn, pc) ==
    /\ outcome = "running"
    /\ Len(stack) > 0
    /\ Top.fn = fn
    /\ Top.pc = pc

\* unwrap() on None, expect() on Err, an index out of bounds, an overflow
\* with overflow checks on: the thread panics and nothing is returned
Crash ==
    /\ outcome' = "Panic"
    /\ UNCHANGED <<input, pos, stack, ret, phase, first, out>>

\* return r, with the cursor at p
Return(r, p) ==
    /\ stack' = Callers
    /\ ret' = Returned(r)
    /\ pos' = p
    /\ UNCHANGED <<input, outcome, phase, first, out>>

\* go on in the same call as frame f, with the cursor at p
Step(f, p) ==
    /\ stack' = Callers \o <<f>>
    /\ pos' = p
    /\ UNCHANGED <<input, ret, outcome, phase, first, out>>

\* go on as frame f and call parse_element, with the cursor at p
Call(f, p) ==
    /\ stack' = Callers \o <<f, Frame("parse_element", "match")>>
    /\ pos' = p
    /\ UNCHANGED <<input, ret, outcome, phase, first, out>>

\* the ? operator gone wrong: the error is reported again at the cursor
PropagateRewritten ==
    /\ stack' = Callers
    /\ ret' = [ret EXCEPT !.err.at = pos]
    /\ UNCHANGED <<input, pos, outcome, phase, first, out>>

\* the ? operator on the callee's Err: return it as it is
Propagate ==
    /\ stack' = Callers
    /\ UNCHANGED <<input, pos, ret, outcome, phase, first, out>>

----------------------------------------------------------------------------
(* impl Parser: the recursive descent *)

Init ==
    /\ input \in Inputs
    /\ pos = 0
    /\ stack = <<Frame("parse_element", "match")>>
    /\ ret = NoRet
    /\ outcome = "running"
    /\ phase = "parse"
    /\ first = NoVal
    /\ out = <<>>

\* Parser::parse_element; a d, l or i arm returns what the callee returns
parse_element ==
    /\ Running("parse_element", "match")
    /\ IF eof(input, pos) THEN Crash
       ELSE LET c == At(input, pos) IN
            CASE c = Ch("d") -> Step(Frame("parse_dict", "begin"), pos)
              [] c = Ch("l") -> Step(Frame("parse_list", "begin"), pos)
              [] c = Ch("i") -> Step(Frame("parse_int", "begin"), pos)
              [] IsDigit(c) ->
                    LET s == parse_string(input, pos) IN
                    IF s.tag = "Panic" THEN Crash ELSE Return(s, s.pos)
              [] OTHER ->
                    Return(Err(Error("Unexpected", pos, "Unexpected value type",
                                     <<>>), pos), pos)

\* Parser::parse_dict: consume_expected(b'd')?; let mut dict = BTreeMap::new()
parse_dict_begin ==
    /\ Running("parse_dict", "begin")
    /\ LET r == consume_expected(input, pos, Ch("d")) IN
       CASE r.tag = "Panic" -> Crash
         [] r.tag = "Err" -> Return(r, r.pos)
         [] r.tag = "Ok" -> Step([Top EXCEPT !.pc = "loop", !.m = <<>>], r.pos)

\* Parser::parse_dict: the loop test, then the key and the call for the
\* value, or the closing e and the return
parse_dict_loop ==
    /\ Running("parse_dict", "loop")
    /\ IF eof(input, pos) THEN Crash
       ELSE IF At(input, pos) # Ch("e")
       THEN LET k == parse_string(input, pos) IN
            CASE k.tag = "Panic" -> Crash
              [] k.tag = "Err" -> Return(k, k.pos)
              [] k.tag = "Ok" ->
                    Call([Top EXCEPT !.pc = "value", !.key = k.val.n], k.pos)
       ELSE LET r == consume_expected(input, pos, Ch("e")) IN
            CASE r.tag = "Panic" -> Crash
              [] r.tag = "Err" -> Return(r, r.pos)
              [] r.tag = "Ok" -> Return(Ok(Dict(Top.m), r.pos), r.pos)

\* Parser::parse_dict: let v = self.parse_element()?; dict.insert(k, v)
parse_dict_insert ==
    /\ Running("parse_dict", "value")
    /\ IF ret.tag = "Err" THEN Propagate
       ELSE /\ stack' = Callers \o
                    <<[Top EXCEPT !.pc = "loop",
                                  !.m = BTreeInsert(Top.m, Top.key, ret.val)]>>
            /\ ret' = NoRet
            /\ UNCHANGED <<input, pos, outcome, phase, first, out>>

\* Parser::parse_list: consume_expected(b'l')?; let mut list = vec![]
parse_list_begin ==
    /\ Running("parse_list", "begin")
    /\ LET r == consume_expected(input, pos, Ch("l")) IN
       CASE r.tag = "Panic" -> Crash
         [] r.tag = "Err" -> Return(r, r.pos)
         [] r.tag = "Ok" -> Step([Top EXCEPT !.pc = "loop", !.l = <<>>], r.pos)

\* Parser::parse_list: the loop test, then the call for the element, or the
\* closing e and the return
parse_list_loop ==
    /\ Running("parse_list", "loop")
    /\ IF eof(input, pos) THEN Crash
       ELSE IF At(input, pos) # Ch("e")
       THEN Call([Top EXCEPT !.pc = "push"], pos)
       ELSE LET r == consume_expected(input, pos, Ch("e")) IN
            CASE r.tag = "Panic" -> Crash
              [] r.tag = "Err" -> Return(r, r.pos)
              [] r.tag = "Ok" -> Return(Ok(List(Top.l), r.pos), r.pos)

\* Parser::parse_list: list.push(self.parse_element()?)
parse_list_push ==
    /\ Running("parse_list", "push")
    /\ IF ret.tag = "Err" THEN Propagate
       ELSE /\ stack' = Callers \o
                    <<[Top EXCEPT !.pc = "loop", !.l = Append(Top.l, ret.val)]>>
            /\ ret' = NoRet
            /\ UNCHANGED <<input, pos, outcome, phase, first, out>>

\* Parser::parse_int: let pos = self.pos; self.consume_expected(b'i')?
parse_int_begin ==
    /\ Running("parse_int", "begin")
    /\ LET r == consume_expected(input, pos, Ch("i")) IN
       CASE r.tag = "Panic" -> Crash
         [] r.tag = "Err" -> Return(r, r.pos)
         [] r.tag = "Ok" -> Step([Top EXCEPT !.pc = "sign", !.start = pos], r.pos)

\* Parser::parse_int: the sign probe self.consume_expected(b'-'), whose
\* Result the match that follows takes apart
parse_int_sign ==
    /\ Running("parse_int", "sign")
    /\ LET r == consume_expected(input, pos, Ch("-")) IN
       IF r.tag = "Panic" THEN Crash
       ELSE /\ stack' = Callers \o <<[Top EXCEPT !.pc = "digits"]>>
            /\ ret' = Returned(r)
            /\ pos' = r.pos
            /\ UNCHANGED <<input, outcome, phase, first, out>>

\* Parser::parse_int: the match on the probe, the digits, the two zero
\* rules, the conversion, the closing e and the product with the sign
parse_int_digits ==
    /\ Running("parse_int", "digits")
    /\ LET sign == IF ret.tag = "Ok" THEN -1 ELSE 1
           q == consume_while(input, pos, Ch("e"))
           v == SubSeq(input, pos + 1, q)
           int == parse_i64(v)
           e == consume_expected(input, q, Ch("e"))
       IN  IF Len(v) > 1 /\ v[1] = Ch("0")
           THEN Return(Err(Error("Unexpected", Top.start, "Leading 0", <<>>), q), q)
           ELSE IF Len(v) = 1 /\ v[1] = Ch("0") /\ sign = -1
           THEN Return(Err(Error("Unexpected", Top.start, "Negative 0", <<>>), q), q)
           ELSE IF ~from_utf8_ok(v)
           THEN Return(Err(Error("Utf8Error", Top.start,
                                 "Non UTF8 encoded integer value",
                                 <<valid_up_to(v)>>), q), q)
           ELSE IF ~int.ok THEN Crash
           ELSE IF e.tag = "Panic" THEN Crash
           ELSE IF e.tag = "Err" THEN Return(e, e.pos)
           ELSE \E product \in mul_sign(int.val, sign) :
                    IF product.panic THEN Crash
                    ELSE Return(Ok(product.val, e.pos), e.pos)

\* Parser::decode, Bencode::parse: hand the Result of the outermost
\* parse_element to the caller
decode ==
    /\ outcome = "running"
    /\ Len(stack) = 0
    /\ outcome' = ret.tag
    /\ UNCHANGED <<input, pos, stack, ret, phase, first, out>>

\* Bencode::serialize on the value of a successful parse
Serialize ==
    /\ phase = "parse"
    /\ outcome = "Ok"
    /\ out' = serialize(ret.val)
    /\ first' = ret.val
    /\ phase' = "serialized"
    /\ UNCHANGED <<input, pos, stack, ret, outcome>>

\* Bencode::parse on the serialized bytes: Parser::new(&source).decode()
Reparse ==
    /\ phase = "serialized"
    /\ input' = out
    /\ pos' = 0
    /\ stack' = <<Frame("parse_element", "match")>>
    /\ ret' = NoRet
    /\ outcome' = "running"
    /\ phase' = "reparse"
    /\ UNCHANGED <<first, out>>

Next ==
    \/ parse_element
    \/ parse_dict_begin
    \/ parse_dict_loop
    \/ parse_dict_insert
    \/ parse_list_begin
    \/ parse_list_loop
    \/ parse_list_push
    \/ parse_int_begin
    \/ parse_int_sign
    \/ parse_int_digits
    \/ decode
    \/ Serialize
    \/ Reparse

Spec == Init /\ [][Next]_vars

----------------------------------------------------------------------------
(* Properties *)

Finished == outcome # "running"

Last(inp) == inp[Len(inp)]

\* the bytes between the first and the last byte of inp
Inner(inp) == SubSeq(inp, 2, Len(inp) - 1)

AllDigits(ds) == Len(ds) > 0 /\ \A k \in 1..Len(ds) : IsDigit(ds[k])

SpamDict ==
    B(<<"d", "4", ":", "s", "p", "a", "m", "3", ":", "d", "o", "g",
        "3", ":", "c", "a", "t", "i", "3", "6", "e", "e">>)
SpamDictCanonical ==
    B(<<"d", "3", ":", "c", "a", "t", "i", "3", "6", "e",
        "4", ":", "s", "p", "a", "m", "3", ":", "d", "o", "g", "e">>)

\* C1: whenever the first parse returned Ok(v), parsing v.serialize() ends
\* in Ok(v') with v' equal to v.
RoundTrip ==
    (phase = "reparse" /\ Finished) => (outcome = "Ok" /\ ret.val = first)

\* C2: Bencode::parse never panics, whatever the input.
ParseNeverPanics == outcome # "Panic"

\* C3: the serialized bytes of a decoded value carry the keys of every
\* dict, nested ones included, each once and in strictly ascending order:
\* while the serialized bytes are parsed again, every key read is above all
\* the keys read before it in the same dict; and the documented example
\* d4:spam3:dog3:cati36ee serializes to d3:cati36e4:spam3:doge.
CanonicalDictOrdering ==
    /\ phase = "reparse" =>
         \A d \in 1..Len(stack) :
            (stack[d].fn = "parse_dict" /\ stack[d].pc = "value") =>
               \A j \in 1..Len(stack[d].m) :
                  BytesLess(stack[d].m[j].k, stack[d].key)
    /\ (phase = "serialized" /\ input = SpamDict) => out = SpamDictCanonical

CanonicalDictOrderingWitness ==
    /\ phase = "serialized"
    /\ input = SpamDict
    /\ out = SpamDictCanonical

\* i<s><digits>e with <s> empty or -, <digits> one or more ASCII digits
IsIntToken(inp) ==
    /\ Len(inp) >= 3
    /\ inp[1] = Ch("i")
    /\ Last(inp) = Ch("e")
    /\ AllDigits(IF inp[2] = Ch("-") THEN Tail(Inner(inp)) ELSE Inner(inp))

\* C4: for an input i<s><digits>e whose value is an i64, parse_int returns
\* Err(Unexpected) when <digits> has a leading zero or the token is i-0e,
\* and otherwise Ok(Integer(n)), n the value of <digits>, negated iff <s>
\* is -.
IntTokenRule ==
    (phase = "parse" /\ Finished /\ IsIntToken(input)) =>
        LET minus == input[2] = Ch("-")
            ds == IF minus THEN Tail(Inner(input)) ELSE Inner(input)
            zero == ds = B(<<"0">>)
        IN  IF (Len(ds) > 1 /\ ds[1] = Ch("0")) \/ (minus /\ zero)
            THEN outcome = "Err" /\ ret.err.kind = "Unexpected"
            ELSE DigitsLeq(ds, IF minus THEN I64MinDigits ELSE I64MaxDigits) =>
                    (outcome = "Ok" /\ ret.val = Integer(minus, ds))

\* C5: an input whose byte-string length field begins with -, at the top
\* level or as a dict key, fails with NegativeLen at the index of the -.
NegativeLenRejected ==
    (phase = "parse" /\ Finished) =>
        /\ (Len(input) >= 1 /\ input[1] = Ch("-")) =>
              (outcome = "Err" /\ ret.err.kind = "NegativeLen" /\ ret.err.at = 0)
        /\ (Len(input) >= 2 /\ input[1] = Ch("d") /\ input[2] = Ch("-")) =>
              (outcome = "Err" /\ ret.err.kind = "NegativeLen" /\ ret.err.at = 1)

DupKeyDict ==
    B(<<"d", "1", ":", "a", "i", "1", "e", "1", ":", "b", "i", "2", "e",
        "1", ":", "a", "i", "3", "e", "e">>)
DupKeyValue ==
    Dict(<<[k |-> B(<<"a">>), v |-> Integer(FALSE, B(<<"3">>))],
           [k |-> B(<<"b">>), v |-> Integer(FALSE, B(<<"2">>))]>>)

Entries(dict) == {dict[j] : j \in 1..Len(dict)}

\* C6: every dict.insert(k, v) of parse_dict succeeds and leaves exactly
\* one entry for k, holding v, the value parsed last, and the entries of the
\* other keys as they were; d1:ai1e1:bi2e1:ai3ee decodes to {a: 3, b: 2}.
DuplicateKeysLastWins ==
    /\ [][(Running("parse_dict", "value") /\ ret.tag = "Ok") =>
            LET old == Top.m
                new == stack'[Len(stack')].m
            IN  /\ outcome' = "running"
                /\ Len(stack') = Len(stack)
                /\ Cardinality({j \in 1..Len(new) : new[j].k = Top.key}) = 1
                /\ \A e \in Entries(new) : e.k = Top.key => e.v = ret.val
                /\ {e \in Entries(new) : e.k # Top.key}
                      = {e \in Entries(old) : e.k # Top.key}
                /\ Len(new) = Cardinality({e.k : e \in Entries(new)})]_vars
    /\ []((phase = "parse" /\ Finished /\ input = DupKeyDict) =>
            (outcome = "Ok" /\ ret.val = DupKeyValue))

DuplicateKeysWitness ==
    /\ phase = "parse"
    /\ outcome = "Ok"
    /\ input = DupKeyDict
    /\ ret.val = DupKeyValue

\* C7: whenever Bencode::parse returns Ok the cursor is at the end of the
\* input.
OkConsumesWholeInput == outcome = "Ok" => pos = Len(input)

\* 0 | -?[1-9][0-9]*
MatchesIntGrammar(t) ==
    LET ds == IF Len(t) > 0 /\ t[1] = Ch("-") THEN Tail(t) ELSE t
    IN  \/ t = B(<<"0">>)
        \/ AllDigits(ds) /\ ds[1] # Ch("0")

\* C8: Bencode::parse returns Ok(Integer(_)) for an input i<t>e, <t> free
\* of e, only if <t> matches 0 | -?[1-9][0-9]*.
IntegerGrammarStrict ==
    ( /\ phase = "parse"
      /\ outcome = "Ok"
      /\ ret.val.t = "Integer"
      /\ Len(input) >= 2
      /\ input[1] = Ch("i")
      /\ Last(input) = Ch("e")
      /\ \A k \in 1..Len(Inner(input)) : Inner(input)[k] # Ch("e") )
    => MatchesIntGrammar(Inner(input))

\* at cursor p stands <n>:<rest>: a length field of w digits with the
\* value n, a colon, and at least n bytes after it
LenFieldAt(inp, p, w, n) ==
    /\ w >= 1
    /\ p + w + 1 + n <= Len(inp)
    /\ \A r \in p..(p + w - 1) : IsDigit(At(inp, r))
    /\ At(inp, p + w) = Ch(":")
    /\ StripZeros(SubSeq(inp, p + 1, p + w)) = format_usize(n)

\* C9: parse_string called at cursor p on <n>:<rest>, with at least n
\* bytes after the colon, returns exactly those n bytes, whatever they are,
\* and leaves the cursor at p + len(<n>) + 1 + n; this holds where
\* parse_element calls it for a byte-string element and where parse_dict
\* calls it for a key.
PayloadLengthDelimited ==
    [][\A w \in 1..Len(input) : \A n \in 0..Len(input) :
          LenFieldAt(input, pos, w, n) =>
             LET payload == SubSeq(input, pos + w + 2, pos + w + 1 + n) IN
             /\ Running("parse_element", "match") =>
                   /\ ret' = Returned(Ok(Bytes(payload), 0))
                   /\ pos' = pos + w + 1 + n
                   /\ outcome' = "running"
             /\ Running("parse_dict", "loop") =>
                   /\ Len(stack') = Len(stack) + 1
                   /\ stack'[Len(stack)].key = payload
                   /\ pos' = pos + w + 1 + n
                   /\ outcome' = "running"]_vars

PayloadWitness ==
    /\ phase = "parse"
    /\ outcome = "Ok"
    /\ input = B(<<"3", ":", "e", ":", "-">>)
    /\ ret.val = Bytes(B(<<"e", ":", "-">>))
    /\ pos = 5

\* an error has been returned by a call and Bencode::parse has not ended
ErrPending == outcome = "running" /\ ret.tag = "Err"

ErrStays ==
    /\ ret' = ret
    /\ pos' = pos
    /\ outcome' \in {"running", "Err"}
    /\ Len(stack') <= Len(stack)

\* C10: once any call of the descent has returned Err(E), E stays the
\* pending result, the cursor stays where it is, and Bencode::parse ends
\* in Err(E) carrying no value.
FirstFailurePropagates ==
    /\ [][ErrPending => ErrStays]_vars
    /\ [](outcome = "Err" => (ret.tag = "Err" /\ ret.val = NoVal))

\* C10, amended: the same for every Err but the one the sign probe of
\* parse_int returns, which parse_int's match discards before it reads the
\* digits.
FirstFailurePropagatesButProbe ==
    /\ [][(ErrPending /\ ~Running("parse_int", "digits")) => ErrStays]_vars
    /\ [](outcome = "Err" => (ret.tag = "Err" /\ ret.val = NoVal))

FirstFailureWitness ==
    /\ phase = "parse"
    /\ outcome = "Err"
    /\ input = B(<<"l", "l", "i", "1", "e", "l", "i", "0", "1", "e", "e", "e", "e">>)
    /\ ret.err = Error("Unexpected", 6, "Leading 0", <<>>)
    /\ pos = 9

====
